---------------------------- MODULE Spec2Model ----------------------------
(***************************************************************************)
(* Model of app/src/main/cpp/native-lib.cpp of TitanCNC: the three JNI     *)
(* entry points of com.titancnc.utils.ImageProcessor, each a short         *)
(* sequence of OpenCV calls on the cv::Mat the caller addresses by         *)
(* matAddr.                                                                *)
(*                                                                         *)
(* A cv::Mat of depth CV_8U is the record [rows, cols, ch, data]: data is  *)
(* the row-major sequence of its rows*cols pixels, a pixel the sequence of *)
(* its ch channel values (BGR order for a colour image).  matAddr is       *)
(* taken to address a live cv::Mat.  The OpenCV calls are modelled by what *)
(* the library computes for 8-bit images.  The source does not say which   *)
(* OpenCV it is built against: findContours scans the caller's image       *)
(* itself before 3.2 and a padded copy of it from 3.2 on, and the build is *)
(* either (inPlace).  A failed OpenCV assertion throws                     *)
(* cv::Exception, which no entry point catches: the call ends with         *)
(* outcome "exception" and the process does not go on.                     *)
(***************************************************************************)
EXTENDS Integers, Sequences, FiniteSets, TLC

VARIABLES
    mat,        \* the caller's cv::Mat, *(cv::Mat*)matAddr
    pre,        \* mat as it was when the last call was entered
    op,         \* the last entry point called
    alg,        \* the jint algorithm of the last nativeApplyDithering
    outcome,    \* "ok": the call returned; "exception": cv::Exception escaped
    retString,  \* the jstring nativeProcessImage returned ("" when none)
    retCount,   \* the jlong nativeFindContours returned (0 when none)
    contours,   \* nativeFindContours' local vector of contours
    hierarchy,  \* nativeFindContours' local vector of Vec4i
    gray,       \* mat as the switch of the last nativeApplyDithering found it
    prevTrace,  \* when the last two calls were both nativeFindContours, what
                \* the first of them found; NoTrace otherwise
    inPlace     \* the cv::findContours the build links scans the caller's
                \* image itself (OpenCV before 3.2) or a copy of it (3.2 on)

vars ==
    <<mat, pre, op, alg, outcome, retString, retCount, contours, hierarchy,
      gray, prevTrace, inPlace>>

-----------------------------------------------------------------------------
(* Bounds of the model.                                                    *)

\* A grey image of the initial states has at most this many pixels.
MaxGrayPixels == 3
\* A colour image of the initial states has at most this many pixels.
MaxColorPixels == 2
\* Every two-level image with at most this many pixels is an initial state.
MaxBinPixels == 5
\* The square images of the initial states lie on canvases up to this side.
MaxCanvas == 3

\* Grey levels of the initial grey images: the levels around the fixed
\* threshold and two well separated clusters.
PixelVals == {10, 127, 128, 129, 240}
\* BGR pixels of the initial colour images; their grey levels are
\* 0, 255, 51 or 52 (as the library rounds), 29, 150, 76 and 128.
ColorVals ==
    {<<0, 0, 0>>, <<255, 255, 255>>, <<0, 75, 25>>, <<255, 0, 0>>,
     <<0, 255, 0>>, <<0, 0, 255>>, <<127, 128, 129>>}
\* The jint selectors the caller passes: the three known codes and others.
Algorithms == {-1, 0, 1, 2, 3}

-----------------------------------------------------------------------------
(* Small helpers.                                                          *)

Abs(x) == IF x < 0 THEN -x ELSE x
Min2(a, b) == IF a < b THEN a ELSE b
SetMin(S) == CHOOSE x \in S : \A y \in S : x <= y
SetMax(S) == CHOOSE x \in S : \A y \in S : x >= y

\* The cv::Mat of the given shape and pixel data.
Mat(r, c, n, d) == [rows |-> r, cols |-> c, ch |-> n, data |-> d]

\* The values of channel 1 of every pixel, as a set.
Levels(m) == {m.data[i][1] : i \in 1..Len(m.data)}

\* The pixel of a single-channel image at row y, column x (1-based).
At(m, y, x) == m.data[(y - 1) * m.cols + x][1]

\* The shapes rows x cols with at most n pixels.
Shapes(n) == {s \in (1..n) \X (1..n) : s[1] * s[2] <= n}

\* std::to_string of a non-negative int: its decimal digits.
RECURSIVE to_string(_)
to_string(n) ==
    LET digit == <<"0", "1", "2", "3", "4", "5", "6", "7", "8", "9">>
    IN  IF n < 10 THEN digit[n + 1]
        ELSE to_string(n \div 10) \o digit[(n % 10) + 1]

-----------------------------------------------------------------------------
(* cv::cvtColor(src, dst, cv::COLOR_BGR2GRAY) on 8-bit pixels.             *)

\* The library computes the grey level of a BGR(A) pixel in fixed point, a
\* fourth channel ignored.  Its versions differ in the precision:
\*   14 bits: (B*1868 + G*9617 + R*4899 + 2^13) >> 14
\*   15 bits: (B*3735 + G*19235 + R*9798 + 2^14) >> 15
\* and the source does not say which the build links.
LumaBits == {14, 15}

luma(px, bits) ==
    IF bits = 14
    THEN (px[1] * 1868 + px[2] * 9617 + px[3] * 4899 + 8192) \div 16384
    ELSE (px[1] * 3735 + px[2] * 19235 + px[3] * 9798 + 16384) \div 32768

\* CV_Assert(scn == 3 || scn == 4): any other channel count throws
\* cv::Exception.
cvtColorAccepts(m) == m.ch \in {3, 4}

\* The single-channel results the library's versions give for an image of 3
\* or 4 channels.
cvtColor(m) ==
    {Mat(m.rows, m.cols, 1,
         [i \in 1..Len(m.data) |-> <<luma(m.data[i], bits)>>]) :
        bits \in LumaBits}

-----------------------------------------------------------------------------
(* cv::threshold(src, dst, thresh, maxval, cv::THRESH_BINARY).             *)

\* THRESH_TRUNC in place of THRESH_BINARY: dst = min(src, thresh).
threshold_Trunc(m, thresh, maxval) ==
    Mat(m.rows, m.cols, m.ch,
        [i \in 1..Len(m.data) |->
            <<IF m.data[i][1] > thresh THEN thresh ELSE m.data[i][1]>>])

\* A threshold that maps src = thresh to maxval: ">" written ">=".
threshold_Inclusive(m, thresh, maxval) ==
    Mat(m.rows, m.cols, m.ch,
        [i \in 1..Len(m.data) |->
            <<IF m.data[i][1] >= thresh THEN maxval ELSE 0>>])

\* THRESH_BINARY: dst = maxval where src > thresh, 0 elsewhere.
threshold(m, thresh, maxval) ==
    Mat(m.rows, m.cols, m.ch,
        [i \in 1..Len(m.data) |->
            <<IF m.data[i][1] > thresh THEN maxval ELSE 0>>])

-----------------------------------------------------------------------------
(* cv::THRESH_OTSU: getThreshVal_Otsu_8u.                                  *)
(*                                                                         *)
(* The library walks i = 0..255 keeping the weight q1 and the mean mu1 of  *)
(* the levels <= i, and keeps an i whose between-class variance            *)
(*     sigma(i) = q1*q2*(mu1 - mu2)^2                                      *)
(* is greater than the greatest seen so far (max_sigma starts at 0,        *)
(* max_val at 0); an i with an empty class is skipped.  With n1, s1 the    *)
(* count and the sum of the levels <= i, N and S those of the image,       *)
(*     sigma(i) = (s1*N - S*n1)^2 / (N^2 * n1 * (N - n1)),                 *)
(* compared here as exact fractions.  The library computes sigma in        *)
(* doubles from running products, so which of several i of exactly equal   *)
(* sigma it keeps rests on rounding: the operator yields every one of      *)
(* them.                                                                   *)

\* Non-negative integers beyond 32 bits: little-endian digits in base 10^4.
RECURSIVE BigMulSmall(_, _, _)
BigMulSmall(big, k, carry) ==
    IF big = <<>>
    THEN (IF carry = 0 THEN <<>>
          ELSE <<carry % 10000>> \o BigMulSmall(<<>>, k, carry \div 10000))
    ELSE LET t == big[1] * k + carry
         IN  <<t % 10000>> \o BigMulSmall(Tail(big), k, t \div 10000)

RECURSIVE BigTrim(_)
BigTrim(big) ==
    IF big # <<>> /\ big[Len(big)] = 0
    THEN BigTrim(SubSeq(big, 1, Len(big) - 1)) ELSE big

RECURSIVE BigCmpFrom(_, _, _)
BigCmpFrom(a, b, i) ==
    IF i = 0 THEN 0
    ELSE IF a[i] > b[i] THEN 1
    ELSE IF a[i] < b[i] THEN -1
    ELSE BigCmpFrom(a, b, i - 1)

\* -1, 0 or 1 as a < b, a = b, a > b.
BigCmp(a, b) ==
    IF Len(a) > Len(b) THEN 1
    ELSE IF Len(a) < Len(b) THEN -1
    ELSE BigCmpFrom(a, b, Len(a))

\* x*x*d for 0 <= x < 200000 and 0 <= d < 200000.
SqTimes(x, d) ==
    BigTrim(BigMulSmall(BigMulSmall(BigMulSmall(<<1>>, x, 0), x, 0), d, 0))

\* The sign of A^2/D - bA^2/bD, for D, bD > 0.
CmpSigma(A, D, bA, bD) == BigCmp(SqTimes(A, bD), SqTimes(bA, D))

\* The sum of the levels <= i among the first k pixels, and their count.
RECURSIVE SumUpTo(_, _, _)
SumUpTo(d, i, k) ==
    IF k = 0 THEN 0
    ELSE (IF d[k][1] <= i THEN d[k][1] ELSE 0) + SumUpTo(d, i, k - 1)

CountUpTo(d, i) == Cardinality({k \in 1..Len(d) : d[k][1] <= i})

\* sigma(i) as the fraction A^2/D (the common N^2 left out); S is the sum of
\* all levels.  D = 0 marks an i the loop skips (a class is empty).
SigmaAt(d, S, i) ==
    LET N == Len(d)
        n1 == CountUpTo(d, i)
    IN  [A |-> Abs(SumUpTo(d, i, N) * N - S * n1), D |-> n1 * (N - n1),
         best |-> {i}]

\* The greater of two sigmas; both sets of i when they are equal.
MaxSigma(a, b) ==
    IF a.D = 0 THEN b
    ELSE IF b.D = 0 THEN a
    ELSE LET c == CmpSigma(a.A, a.D, b.A, b.D)
         IN  IF c > 0 THEN a
             ELSE IF c < 0 THEN b
             ELSE [a EXCEPT !.best = @ \cup b.best]

\* The greatest sigma over the i of the sequence q.
RECURSIVE OtsuScan(_, _, _)
OtsuScan(d, S, q) ==
    IF Len(q) = 1 THEN SigmaAt(d, S, q[1])
    ELSE MaxSigma(SigmaAt(d, S, q[1]), OtsuScan(d, S, Tail(q)))

\* The elements of a set of integers in increasing order.
RECURSIVE Sorted(_)
Sorted(T) ==
    IF T = {} THEN <<>> ELSE <<SetMin(T)>> \o Sorted(T \ {SetMin(T)})

\* Forgetting cv::THRESH_OTSU: the thresh argument, 0, is the threshold.
OtsuLevels_NoFlag(m) == {0}

\* The levels of the image at which sigma is greatest ({0}: at none is a
\* sigma above max_sigma = 0, and max_val stays 0).  h[i] = 0 leaves q1 and
\* mu1 as they are, so sigma(i) is that of the greatest level <= i, and an i
\* below every level is skipped.
OtsuLevels(m) ==
    LET r == OtsuScan(m.data, SumUpTo(m.data, 255, Len(m.data)),
                      Sorted(Levels(m)))
    IN  IF r.D = 0 THEN {0} ELSE r.best

\* The thresholds getThreshVal_Otsu_8u may return for the image: a level of
\* greatest sigma, or an i between it and the next level of the image.
getThreshVal_Otsu_8u(m) ==
    IF Cardinality(Levels(m)) = 1 THEN OtsuLevels(m)
    ELSE {i \in 0..255 :
             \E l \in OtsuLevels(m) :
                 l <= i /\ \A k \in Levels(m) : k <= l \/ k > i}

\* cv::threshold(src, dst, 0, maxval, THRESH_BINARY | THRESH_OTSU): the
\* threshold is getThreshVal_Otsu_8u's.  Every threshold from a level up to
\* the next level of the image gives the same image, the level's.
thresholdOtsu(m, maxval) == {threshold(m, t, maxval) : t \in OtsuLevels(m)}

-----------------------------------------------------------------------------
(* cv::adaptiveThreshold(src, dst, 255, ADAPTIVE_THRESH_GAUSSIAN_C,        *)
(*                       THRESH_BINARY, 11, 2).                            *)
(*                                                                         *)
(* mean = GaussianBlur(src, 11x11, sigma 2.0, BORDER_REPLICATE) rounded to *)
(* 8 bits; dst = 255 where src - mean > -2, 0 elsewhere.  The library's    *)
(* versions blur 8-bit images with different arithmetic: the weights       *)
(* exp(-d^2/8)/sum in floating point (1000 w = 200.6, 177.0, 121.7, 65.1,  *)
(* 27.1, 8.8), or the weights rounded to 1/256 (51, 45, 31, 17, 7, 2:      *)
(* they sum to 255, so that each of the two passes also scales by          *)
(* 255/256), or rounded to 1/256 and corrected to sum to 1.  The model     *)
(* brackets the normalised weight at each distance between thousandths     *)
(* that hold all of these and lets the whole be scaled by (255/256)^2 or   *)
(* not, which brackets the mean of a pixel between two integers, and       *)
(* yields both levels for a pixel whose comparison falls inside the        *)
(* bracket.                                                                *)

\* Bounds, in thousandths, of the normalised 1-D kernel weight at distance d.
GaussLo == <<199, 175, 121, 65, 27, 7>>
GaussHi == <<204, 177, 122, 67, 28, 9>>

\* BORDER_REPLICATE: a coordinate outside 1..n reads the nearest inside.

\* The weights w at distances k..5 summed.
RECURSIVE TailSum(_, _)
TailSum(w, k) == IF k > 5 THEN 0 ELSE w[k + 1] + TailSum(w, k + 1)

\* The weight, in thousandths, that the window centred at coordinate c gives
\* coordinate t of 1..n: that of every offset in -5..5 which reads t.  An
\* inner coordinate is read by one offset at most; the first and the last
\* are also read by every offset that falls outside on their side.
AxisWeight(w, n, c, t) ==
    IF n = 1 THEN w[1] + 2 * TailSum(w, 1)
    ELSE IF t = 1 THEN TailSum(w, c - 1)
    ELSE IF t = n THEN TailSum(w, n - c)
    ELSE IF Abs(t - c) <= 5 THEN w[Abs(t - c) + 1]
    ELSE 0

\* The weights of every window of an image of the given shape: for
\* weights w, row[y][t] is what a window centred on row y gives row t, and
\* col[x][t] the same for columns.
RECURSIVE AxisRow(_, _, _, _)
AxisRow(w, n, c, t) ==
    IF t > n THEN <<>>
    ELSE <<AxisWeight(w, n, c, t)>> \o AxisRow(w, n, c, t + 1)

RECURSIVE AxisRows(_, _, _)
AxisRows(w, n, c) ==
    IF c > n THEN <<>> ELSE <<AxisRow(w, n, c, 1)>> \o AxisRows(w, n, c + 1)

AxisTable(w, n) == AxisRows(w, n, 1)

GaussTables(m) ==
    [lo |-> SetMin(Levels(m)), hi |-> SetMax(Levels(m)),
     rowLo |-> AxisTable(GaussLo, m.rows), rowHi |-> AxisTable(GaussHi, m.rows),
     colLo |-> AxisTable(GaussLo, m.cols), colHi |-> AxisTable(GaussHi, m.cols)]

\* The sum over the pixels i..Len(data) of (pixel - lo) times the weight
\* rw[row]*cw[column] the window gives the pixel, in millionths.
RECURSIVE BlurWin(_, _, _, _, _)
BlurWin(m, rw, cw, lo, i) ==
    IF i > Len(m.data) THEN 0
    ELSE (IF m.data[i][1] = lo THEN 0
          ELSE (m.data[i][1] - lo) * rw[((i - 1) \div m.cols) + 1]
                                   * cw[((i - 1) % m.cols) + 1])
         + BlurWin(m, rw, cw, lo, i + 1)

CeilDiv(a, b) == (a + b - 1) \div b

\* Integers that bracket the rounded Gaussian mean at (y, x).  With
\* normalised weights the mean is lo + sum w*(p - lo) for the least level lo
\* of the image, the sum bracketed by the weights' brackets; it is at most
\* the greatest level.  The least mean is that of the kernel which scales
\* by (255/256)^2 > 0.992: the normalised mean less its 125th part.
MeanLo(m, T, y, x) ==
    LET M == T.lo * 1000000 + BlurWin(m, T.rowLo[y], T.colLo[x], T.lo, 1)
    IN  (M - CeilDiv(M, 125)) \div 1000000

MeanHi(m, T, y, x) ==
    Min2(T.hi,
         T.lo + CeilDiv(BlurWin(m, T.rowHi[y], T.colHi[x], T.lo, 1), 1000000))

\* The levels pixel i of the result may take: 255 where src - mean > -2.
AdaptiveLevels(m, T, i) ==
    LET y == ((i - 1) \div m.cols) + 1
        x == ((i - 1) % m.cols) + 1
        v == m.data[i][1]
    IN  (IF v - MeanLo(m, T, y, x) > -2 THEN {255} ELSE {})
        \cup (IF v - MeanHi(m, T, y, x) > -2 THEN {} ELSE {0})

\* Every pixel sequence whose i-th pixel is one of the levels it may take.
RECURSIVE AdaptiveData(_, _, _)
AdaptiveData(m, T, n) ==
    IF n = 0 THEN {<<>>}
    ELSE LET head == AdaptiveData(m, T, n - 1)
             last == AdaptiveLevels(m, T, n)
         IN  {Append(d, <<v>>) : d \in head, v \in last}

\* The images adaptiveThreshold may produce.
adaptiveThreshold(m) ==
    {Mat(m.rows, m.cols, 1, d) :
        d \in AdaptiveData(m, GaussTables(m), Len(m.data))}

-----------------------------------------------------------------------------
(* The switch of nativeApplyDithering (lines 34-47) on the image left by   *)
(* the grey conversion: the set of [mat, outcome] it may end with.         *)

Done(m) == [mat |-> m, outcome |-> "ok"]
Thrown(m) == [mat |-> m, outcome |-> "exception"]

\* Lines 29-31: the image the switch is entered with, or the exception of
\* the conversion.  An empty image of 3 or 4 channels: the library's
\* versions differ on throwing; the image converted is empty.
grayConversion(m) ==
    IF m.ch <= 1 THEN {Done(m)}
    ELSE IF ~cvtColorAccepts(m) THEN {Thrown(m)}
    ELSE IF m.rows = 0 \/ m.cols = 0
    THEN {Thrown(m), Done(Mat(m.rows, m.cols, 1, <<>>))}
    ELSE {Done(g) : g \in cvtColor(m)}

\* A switch whose default label falls into the case above it.
ditherSwitch_Fallthrough(m, algorithm) ==
    IF m.rows = 0 \/ m.cols = 0 THEN {Done(m), Thrown(m)}
    ELSE IF algorithm = 1 THEN {Done(r) : r \in adaptiveThreshold(m)}
    ELSE IF algorithm = 0 THEN {Done(threshold(m, 128, 255))}
    ELSE {Done(r) : r \in thresholdOtsu(m, 255)}

ditherSwitch(m, algorithm) ==
    IF algorithm \notin {0, 1, 2}
    THEN {Done(m)}                                         \* default: break
    ELSE IF m.rows = 0 \/ m.cols = 0
    \* An empty image: whether the library call throws or returns at once
    \* differs between its versions; the image stays empty.
    THEN {Done(m), Thrown(m)}
    ELSE IF algorithm = 0
    THEN {Done(threshold(m, 128, 255))}
    ELSE IF algorithm = 1
    THEN {Done(r) : r \in adaptiveThreshold(m)}
    ELSE {Done(r) : r \in thresholdOtsu(m, 255)}

-----------------------------------------------------------------------------
(* cv::findContours(image, contours, hierarchy, RETR_TREE,                 *)
(*                  CHAIN_APPROX_SIMPLE).                                  *)
(*                                                                         *)
(* From 3.2 on the library copies the image inside a one-pixel border of   *)
(* zeros, sets every non-zero pixel to 1 and scans the copy in raster      *)
(* order (Suzuki's border following).  A border's pixels are relabelled    *)
(* nbd, or nbd with the sign bit set (here -nbd) where the border has      *)
(* background to its right; nbd counts from 2.  The copy is the function   *)
(* img over 0..H*W-1, pixel (y, x) at y*W + x.                             *)
(*                                                                         *)
(* Before 3.2 the library does the same to the caller's image itself: it   *)
(* clears the image's outermost rows and columns to have the border of     *)
(* zeros, so that borders which touch the frame are clipped, and it leaves *)
(* the labels in the image.                                                *)

findContoursAccepts(m) == m.ch = 1            \* CV_8UC1 unless RETR_FLOODFILL

\* threshold(image, 0, 1, THRESH_BINARY) of the copy.
Binary01(v) == IF v # 0 THEN 1 ELSE 0

\* The bordered binary copy.
Padded(m) ==
    LET W == m.cols + 2
        H == m.rows + 2
    IN  [p \in 0..(H * W - 1) |->
            LET y == p \div W
                x == p % W
            IN  IF y = 0 \/ y = H - 1 \/ x = 0 \/ x = W - 1 THEN 0
                ELSE Binary01(At(m, y, x))]

\* icvCodeDeltas: the step of chain code s (0 east, counter-clockwise, y down).
CodeDx == <<1, 1, 0, -1, -1, -1, 0, 1>>
CodeDy == <<0, -1, -1, -1, 0, 1, 1, 1>>
Delta(W, s) == CodeDy[(s % 8) + 1] * W + CodeDx[(s % 8) + 1]

\* do { s = (s - 1) & 7; i1 = i0 + deltas[s]; } while (*i1 == 0 && s != s_end)
RECURSIVE FirstDir(_, _, _, _, _)
FirstDir(img, W, i0, s, sEnd) ==
    LET s1 == (s + 7) % 8
    IN  IF img[i0 + Delta(W, s1)] # 0 \/ s1 = sEnd THEN s1
        ELSE FirstDir(img, W, i0, s1, sEnd)

\* while (s < MAX_SIZE - 1) { i4 = i3 + deltas[++s]; if (*i4 != 0) break; }
RECURSIVE NextDir(_, _, _, _)
NextDir(img, W, i3, s) ==
    IF s >= 15 THEN s
    ELSE IF img[i3 + Delta(W, s + 1)] # 0 THEN s + 1
    ELSE NextDir(img, W, i3, s + 1)

\* The border-following loop of icvFetchContourEx, from pixel i3 entered with
\* chain code s; CHAIN_APPROX_SIMPLE writes a point where the code changes.
RECURSIVE Follow(_, _, _, _, _, _, _, _, _, _)
Follow(img, W, nbd, i0, i1, i3, s, prevS, pt, pts) ==
    LET sN == NextDir(img, W, i3, s)
        i4 == i3 + Delta(W, sN)
        sM == sN % 8
        img2 == IF sM >= 1 /\ sM - 1 < s    \* (unsigned)(s - 1) < s_end
                THEN [img EXCEPT ![i3] = -nbd]
                ELSE IF img[i3] = 1 THEN [img EXCEPT ![i3] = nbd]
                ELSE img
        pts2 == IF sM # prevS THEN Append(pts, pt) ELSE pts
        pt2 == <<pt[1] + CodeDx[sM + 1], pt[2] + CodeDy[sM + 1]>>
    IN  IF i4 = i0 /\ i3 = i1 THEN [img |-> img2, pts |-> pts2]
        ELSE Follow(img2, W, nbd, i0, i1, i4, (sM + 4) % 8, sM, pt2, pts2)

\* icvFetchContourEx: trace the border that starts at pixel i0 (point pt).
FetchContourEx(img, W, nbd, i0, pt, isHole) ==
    LET sEnd == IF isHole THEN 0 ELSE 4
        s == FirstDir(img, W, i0, sEnd, sEnd)
    IN  IF s = sEnd                                  \* single pixel domain
        THEN [img |-> [img EXCEPT ![i0] = -nbd], pts |-> <<pt>>]
        ELSE Follow(img, W, nbd, i0, i0 + Delta(W, s), i0, s, (s + 4) % 8,
                    pt, <<>>)

\* The contour (an index of cs) whose label is lval: cinfo_table[lval].
\* Labels wrap at 127; the images of this model hold fewer borders.
ByLabel(cs, lval) == CHOOSE k \in 1..Len(cs) : cs[k].label = lval

\* "find contour parent": the border last met on this row, or its parent when
\* both are holes or both are outer borders; 0 is the frame.
ParentOf(st, W, isHole, lx) ==
    IF lx <= 0 THEN 0
    ELSE LET par == ByLabel(st.cs, Abs(st.img[st.ly * W + lx]))
         IN  IF st.cs[par].isHole = isHole THEN st.cs[par].parent ELSE par

\* resume_scan: prev = p; if (prev & -2) lnbd.x = x.
Resume(st, p, x) ==
    [st EXCEPT !.prev = p, !.lx = IF p \notin {0, 1} THEN x ELSE @]

\* One pixel of cvFindNextContour's raster scan.
ScanPixel(st, W, y, x) ==
    LET p == st.img[y * W + x]
        outer == st.prev = 0 /\ p = 1
        hole == ~outer /\ p = 0 /\ st.prev >= 1
    IN  IF p = st.prev THEN st
        ELSE IF ~outer /\ ~hole THEN Resume(st, p, x)
        ELSE LET lx == IF hole /\ st.prev \notin {0, 1} THEN x - 1 ELSE st.lx
                 ox == IF hole THEN x - 1 ELSE x
                 f == FetchContourEx(st.img, W, st.nbd, y * W + ox,
                                     <<ox - 1, y - 1>>, hole)
                 c == [isHole |-> hole, label |-> st.nbd, pts |-> f.pts,
                       parent |-> ParentOf(st, W, hole, lx)]
             IN  Resume([st EXCEPT !.img = f.img, !.nbd = @ + 1, !.lx = ox,
                                   !.cs = Append(@, c)],
                        f.img[y * W + x], x)

\* The inner loop of the scan: the pixels x..W-2 of row y.  (nbd counts
\* from 2: the first test only has TLC evaluate st before it goes on.)
RECURSIVE ScanRow(_, _, _, _)
ScanRow(st, W, y, x) ==
    IF st.nbd < 2 \/ x > W - 2 THEN st
    ELSE ScanRow(ScanPixel(st, W, y, x), W, y, x + 1)

\* The outer loop: the rows y..H-2, each begun with lnbd = (0, y), prev = 0.
RECURSIVE ScanFrom(_, _, _, _)
ScanFrom(st, W, H, y) ==
    IF st.nbd < 2 \/ y > H - 2 THEN st
    ELSE ScanFrom(ScanRow([st EXCEPT !.lx = 0, !.ly = y, !.prev = 0],
                          W, y, 1),
                  W, H, y + 1)

\* The scanner after the whole image: its relabelled copy and, in cs, the
\* borders in the order the scan finds them.
Scan(m) ==
    ScanFrom([img |-> Padded(m), nbd |-> 2, lx |-> 0, ly |-> 1, prev |-> 0,
              cs |-> <<>>],
             m.cols + 2, m.rows + 2, 1)

Borders(m) == Scan(m).cs

\* cvInsertNodeIntoTree puts a border at the head of its parent's children:
\* the children of P (0 the frame), last found first.
RECURSIVE Children(_, _, _)
Children(cs, P, k) ==
    IF k = 0 THEN <<>>
    ELSE (IF cs[k].parent = P THEN <<k>> ELSE <<>>) \o Children(cs, P, k - 1)

\* The tree in the order of cvNextTreeNode: a node, its subtree, its siblings.
RECURSIVE PreOrder(_, _)
PreOrder(cs, nodes) ==
    IF nodes = <<>> THEN <<>>
    ELSE <<nodes[1]>> \o PreOrder(cs, Children(cs, nodes[1], Len(cs)))
         \o PreOrder(cs, Tail(nodes))

\* The place of k in sequence q, from 0; -1 for "none" (k = 0).
PlaceIn(q, k) ==
    IF k = 0 THEN -1 ELSE (CHOOSE i \in 1..Len(q) : q[i] = k) - 1

\* The [contours, hierarchy] filled in from the borders cs; a hierarchy
\* entry is <<next, previous, first child, parent>>, -1 for none.
Linked(cs) ==
    LET order == PreOrder(cs, Children(cs, 0, Len(cs)))
        link(k) ==
            LET sib == Children(cs, cs[k].parent, Len(cs))
                j == PlaceIn(sib, k) + 1
                kids == Children(cs, k, Len(cs))
            IN  <<PlaceIn(order, IF j < Len(sib) THEN sib[j + 1] ELSE 0),
                  PlaceIn(order, IF j > 1 THEN sib[j - 1] ELSE 0),
                  PlaceIn(order, IF kids # <<>> THEN kids[1] ELSE 0),
                  PlaceIn(order, cs[k].parent)>>
    IN  [contours |-> [i \in 1..Len(order) |-> cs[order[i]].pts],
         hierarchy |-> [i \in 1..Len(order) |-> link(order[i])]]

\* findContours of 3.2 and later: the borders of a copy of m; m is left as
\* it was.
findContours(m) ==
    [contours |-> Linked(Borders(m)).contours,
     hierarchy |-> Linked(Borders(m)).hierarchy,
     image |-> m]

\* "make zero borders": the first and last row and column of m cleared.
ZeroBorder(m) ==
    Mat(m.rows, m.cols, m.ch,
        [i \in 1..Len(m.data) |->
            IF \/ (i - 1) \div m.cols \in {0, m.rows - 1}
               \/ (i - 1) % m.cols \in {0, m.cols - 1}
            THEN <<0>> ELSE m.data[i]])

\* A label that loses its mark: the flagged pixel is stored as 0.
Stored_Cleared(v) == IF v < 0 THEN 0 ELSE v

\* A label as the byte the image keeps: (schar)(nbd | -128) reads as
\* nbd + 128; 0, 1 and nbd as they are.
Stored(v) == IF v < 0 THEN 128 - v ELSE v

\* findContours before 3.2: the borders of m with its frame cleared (the
\* scan of the image itself is the scan of that image inside one more ring
\* of zeros), and m overwritten with the scanner's labels.
findContoursInPlace(m) ==
    LET st == Scan(ZeroBorder(m))
        W == m.cols + 2
    IN  [contours |-> Linked(st.cs).contours,
         hierarchy |-> Linked(st.cs).hierarchy,
         image |-> Mat(m.rows, m.cols, 1,
                       [i \in 1..Len(m.data) |->
                           <<Stored(st.img[((i - 1) \div m.cols + 1) * W
                                           + ((i - 1) % m.cols) + 1])>>])]

-----------------------------------------------------------------------------
(* The buffers the caller may hand over.                                   *)

\* Every image of shape s whose pixels are drawn from the set px.
ImagesOf(s, n, px) ==
    {Mat(s[1], s[2], n, d) : d \in [1..(s[1] * s[2]) -> px]}

GrayMats ==
    UNION {ImagesOf(s, 1, {<<v>> : v \in PixelVals}) : s \in Shapes(MaxGrayPixels)}

ColorMats ==
    UNION {ImagesOf(s, 3, ColorVals) : s \in Shapes(MaxColorPixels)}

\* The two-level images: the small ones of every shape, and every 3 x 3
\* one (the least shape in which foreground encloses a hole).
BinMats ==
    UNION {ImagesOf(s, 1, {<<0>>, <<255>>}) :
           s \in Shapes(MaxBinPixels) \cup {<<3, 3>>}}

\* The n x n image that is 0 but for a filled square of side k whose top
\* left pixel is at row oy + 1, column ox + 1, less a centred square hole of
\* side h (h = 0: no hole).
SquareMat(n, k, oy, ox, h) ==
    LET t == (k - h) \div 2
        inSq(y, x) == y > oy /\ y <= oy + k /\ x > ox /\ x <= ox + k
        inHole(y, x) == /\ h > 0
                        /\ y > oy + t /\ y <= oy + t + h
                        /\ x > ox + t /\ x <= ox + t + h
    IN  Mat(n, n, 1,
            [i \in 1..(n * n) |->
                LET y == ((i - 1) \div n) + 1
                    x == ((i - 1) % n) + 1
                IN  <<IF inSq(y, x) /\ ~inHole(y, x) THEN 255 ELSE 0>>])

\* The hole sides a square of side k admits: a wall at least one pixel thick
\* on every side, the hole centred.
HoleSides(k) == {h \in 1..k : h <= k - 2 /\ (k - h) % 2 = 0}

FilledSquareMats ==
    {SquareMat(q[1], q[2], q[3], q[4], 0) :
        q \in {q \in (1..MaxCanvas) \X (1..MaxCanvas) \X (0..MaxCanvas)
                      \X (0..MaxCanvas) :
                  q[2] + q[3] <= q[1] /\ q[2] + q[4] <= q[1]}}

HoledSquareMats ==
    {SquareMat(q[1], q[2], q[3], q[4], q[5]) :
        q \in {q \in (1..MaxCanvas) \X (1..MaxCanvas) \X (0..MaxCanvas)
                      \X (0..MaxCanvas) \X (1..MaxCanvas) :
                  /\ q[2] + q[3] <= q[1] /\ q[2] + q[4] <= q[1]
                  /\ q[5] \in HoleSides(q[2])}}

\* The squares of side up to MaxCanvas, filled or holed, inside a ring of
\* background one pixel wide: they stay clear of the image's frame.
FramedSquareMats ==
    {SquareMat(q[1] + 2, q[1], 1, 1, q[2]) :
        q \in {q \in (1..MaxCanvas) \X (0..MaxCanvas) :
                  q[2] = 0 \/ q[2] \in HoleSides(q[1])}}

\* Buffers outside the data model: empty ones, and channel counts 2 and 4.
InvalidMats ==
    {Mat(0, 0, 1, <<>>), Mat(0, 0, 3, <<>>),
     Mat(1, 1, 2, <<<<10, 240>>>>),
     Mat(1, 1, 4, <<<<10, 240, 128, 255>>>>),
     Mat(1, 2, 4, <<<<255, 255, 255, 0>>, <<0, 0, 0, 255>>>>)}

\* The buffers of the data model: positive size, 1 or 3 channels.
ValidMat(m) == m.rows > 0 /\ m.cols > 0 /\ m.ch \in {1, 3}

-----------------------------------------------------------------------------
(* The state machine: the caller's buffer and the calls made on it.        *)

NoTrace == [count |-> -1, contours |-> <<>>, hierarchy |-> <<>>]

\* What the last call found, when it was a nativeFindContours that returned.
LastTrace ==
    IF op = "contours" /\ outcome = "ok"
    THEN [count |-> retCount, contours |-> contours, hierarchy |-> hierarchy]
    ELSE NoTrace

Init ==
    /\ mat \in GrayMats \cup ColorMats \cup BinMats \cup FilledSquareMats
                \cup HoledSquareMats \cup FramedSquareMats \cup InvalidMats
    /\ pre = mat
    /\ op = "none"
    /\ alg = 0
    /\ outcome = "ok"
    /\ retString = ""
    /\ retCount = 0
    /\ contours = <<>>
    /\ hierarchy = <<>>
    /\ gray = mat
    /\ prevTrace = NoTrace
    /\ inPlace \in BOOLEAN

\* nativeProcessImage: cvtColor into the local gray, then the status string.
nativeProcessImage ==
    /\ outcome = "ok"
    /\ op' = "process"
    /\ pre' = mat
    /\ mat' = mat
    /\ alg' = 0
    /\ gray' = mat
    /\ \E ok \in (IF ~cvtColorAccepts(mat) THEN {FALSE}
                  \* An empty image: the library's versions differ on throwing.
                  ELSE IF mat.rows = 0 \/ mat.cols = 0 THEN BOOLEAN
                  ELSE {TRUE}) :
          IF ok
          THEN /\ outcome' = "ok"
               /\ retString' = "Image processed: " \o to_string(mat.cols)
                               \o "x" \o to_string(mat.rows)
          ELSE /\ outcome' = "exception"
               /\ retString' = ""
    /\ retCount' = 0
    /\ contours' = <<>>
    /\ hierarchy' = <<>>
    /\ prevTrace' = NoTrace
    /\ UNCHANGED inPlace

\* nativeApplyDithering: the grey conversion of a multi-channel image in
\* place, then the switch on algorithm.
nativeApplyDithering(algorithm) ==
    /\ outcome = "ok"
    /\ op' = "dither"
    /\ pre' = mat
    /\ alg' = algorithm
    /\ \E g \in grayConversion(mat) :
          IF g.outcome = "exception"
          THEN /\ gray' = mat
               /\ mat' = g.mat
               /\ outcome' = "exception"
          ELSE \E r \in ditherSwitch(g.mat, algorithm) :
                  /\ gray' = g.mat
                  /\ mat' = r.mat
                  /\ outcome' = r.outcome
    /\ retString' = ""
    /\ retCount' = 0
    /\ contours' = <<>>
    /\ hierarchy' = <<>>
    /\ prevTrace' = NoTrace
    /\ UNCHANGED inPlace

\* nativeFindContours: findContours of the caller's mat into the two local
\* vectors, then the number of contours.  The image findContours leaves
\* behind is the caller's: mat is handed over by reference.
nativeFindContours ==
    /\ outcome = "ok"
    /\ op' = "contours"
    /\ pre' = mat
    /\ alg' = 0
    /\ retString' = ""
    /\ gray' = mat
    /\ prevTrace' = LastTrace
    /\ UNCHANGED inPlace
    /\ IF ~findContoursAccepts(mat)
       THEN /\ outcome' = "exception"
            /\ mat' = mat
            /\ contours' = <<>> /\ hierarchy' = <<>> /\ retCount' = 0
       ELSE IF mat.rows = 0 \/ mat.cols = 0
       \* An empty image: the library's versions differ on throwing.
       THEN /\ outcome' \in {"ok", "exception"}
            /\ mat' = mat
            /\ contours' = <<>> /\ hierarchy' = <<>> /\ retCount' = 0
       ELSE LET f == IF inPlace THEN findContoursInPlace(mat)
                     ELSE findContours(mat)
            IN  /\ outcome' = "ok"
                /\ mat' = f.image
                /\ contours' = f.contours
                /\ hierarchy' = f.hierarchy
                /\ retCount' = Len(f.contours)        \* contours.size()

Next ==
    \/ nativeProcessImage
    \/ \E algorithm \in Algorithms : nativeApplyDithering(algorithm)
    \/ nativeFindContours

Spec == Init /\ [][Next]_vars

-----------------------------------------------------------------------------
(* Properties.                                                             *)

\* Pixel by pixel, g is the grey conversion of p and nothing more: p itself
\* when p has one channel, else the grey levels of p's pixels in one of the
\* library's precisions.
IsGrayOf(g, p) ==
    IF p.ch = 1 THEN g = p
    ELSE /\ g.rows = p.rows /\ g.cols = p.cols /\ g.ch = 1
         /\ Len(g.data) = Len(p.data)
         /\ \E bits \in LumaBits :
               \A i \in 1..Len(p.data) : g.data[i] = <<luma(p.data[i], bits)>>

IsGrayOfPre == IsGrayOf(mat, pre)

\* The foreground of a single-channel image and its bounding box.
FgRows(m) == {y \in 1..m.rows : \E x \in 1..m.cols : At(m, y, x) # 0}
FgCols(m) == {x \in 1..m.cols : \E y \in 1..m.rows : At(m, y, x) # 0}
\* The background pixels inside the bounding box of the foreground.
Inner(m) ==
    {q \in (SetMin(FgRows(m))..SetMax(FgRows(m)))
            \X (SetMin(FgCols(m))..SetMax(FgCols(m))) : At(m, q[1], q[2]) = 0}

\* The foreground is one filled square.
IsFilledSquare(m) ==
    /\ m.ch = 1 /\ m.rows > 0 /\ FgRows(m) # {}
    /\ Cardinality(FgRows(m)) = Cardinality(FgCols(m))
    /\ Inner(m) = {}

\* The foreground is one square with a centred square hole.
IsHoledSquare(m) ==
    /\ m.ch = 1 /\ m.rows > 0 /\ FgRows(m) # {}
    /\ SetMax(FgRows(m)) - SetMin(FgRows(m))
         = SetMax(FgCols(m)) - SetMin(FgCols(m))
    /\ Inner(m) # {}
    /\ LET hy == {q[1] : q \in Inner(m)}
           hx == {q[2] : q \in Inner(m)}
           t == SetMin(hy) - SetMin(FgRows(m))
       IN  /\ Inner(m) = (SetMin(hy)..SetMax(hy)) \X (SetMin(hx)..SetMax(hx))
           /\ t >= 1
           /\ SetMax(FgRows(m)) - SetMax(hy) = t
           /\ SetMin(hx) - SetMin(FgCols(m)) = t
           /\ SetMax(FgCols(m)) - SetMax(hx) = t

\* C1 as stated: after nativeApplyDithering on a valid buffer, whatever the
\* selector, the buffer has one channel and every pixel is 0 or 255.
C1_TwoLevelForEverySelector ==
    (op = "dither" /\ ValidMat(pre)) =>
        (outcome = "ok" /\ mat.ch = 1 /\ Levels(mat) \subseteq {0, 255})

\* C1 amended: after nativeApplyDithering on a valid buffer with selector 0,
\* 1 or 2, the buffer has one channel and every pixel is 0 or 255.
C1_TwoLevelForKnownSelector ==
    (op = "dither" /\ ValidMat(pre) /\ alg \in {0, 1, 2}) =>
        (outcome = "ok" /\ mat.ch = 1 /\ Levels(mat) \subseteq {0, 255})

\* A colour image whose grey levels are not all 0 or 255 has been binarized
\* to an image that holds both levels.
C1_Witness ==
    /\ op = "dither" /\ alg \in {0, 1, 2} /\ pre.ch = 3
    /\ ~(Levels(gray) \subseteq {0, 255})
    /\ Levels(mat) = {0, 255}

\* C2 as stated: with selector 0 a pixel becomes 255 if and only if its grey
\* value is >= 128, and 0 otherwise.
C2_HighIffAtLeastT ==
    (op = "dither" /\ alg = 0 /\ ValidMat(pre)) =>
        /\ outcome = "ok"
        /\ IsGrayOf(gray, pre)
        /\ Len(mat.data) = Len(pre.data)
        /\ \A i \in 1..Len(pre.data) :
              mat.data[i] = <<IF gray.data[i][1] >= 128
                              THEN 255 ELSE 0>>

\* C2 amended: with selector 0 a pixel becomes 255 if and only if its grey
\* value is > 128, and 0 otherwise: 127, 128, 129 map to 0, 0, 255.
C2_HighIffAboveT ==
    (op = "dither" /\ alg = 0 /\ ValidMat(pre)) =>
        /\ outcome = "ok"
        /\ IsGrayOf(gray, pre)
        /\ Len(mat.data) = Len(pre.data)
        /\ \A i \in 1..Len(pre.data) :
              mat.data[i] = <<IF gray.data[i][1] > 128
                              THEN 255 ELSE 0>>

\* The fixed threshold has been applied to an image that holds 127, 128 and
\* 129.
C2_Witness ==
    /\ op = "dither" /\ alg = 0 /\ outcome = "ok"
    /\ {127, 128, 129} \subseteq Levels(pre)
    /\ Levels(mat) = {0, 255}

\* C3: with a selector outside {0, 1, 2} nativeApplyDithering returns and
\* leaves the buffer equal to its grey conversion: a 1-channel buffer
\* unchanged, a 3-channel buffer its 1-channel grey reduction.
C3_UnknownSelectorLeavesGray ==
    (op = "dither" /\ alg \notin {0, 1, 2} /\ ValidMat(pre)) =>
        (outcome = "ok" /\ IsGrayOfPre)

\* A colour image has gone through an unknown selector and holds a grey level
\* that is neither 0 nor 255.
C3_Witness ==
    /\ op = "dither" /\ alg \notin {0, 1, 2} /\ pre.ch = 3
    /\ mat.ch = 1 /\ ~(Levels(mat) \subseteq {0, 255})

\* C4 as stated: on an empty buffer, or one whose channel count is not 1 or
\* 3, nativeApplyDithering reports an error and leaves the buffer as it was.
C4_InvalidBufferRejectedUnchanged ==
    (op = "dither" /\ ~ValidMat(pre)) => (outcome = "exception" /\ mat = pre)

\* C5 as stated: nativeFindContours leaves a valid buffer as it was: shape,
\* channel count and every pixel.
C5_TraceLeavesBuffer ==
    (op = "contours" /\ ValidMat(pre)) => mat = pre

\* C6 as stated: on a single filled square nativeFindContours finds one contour, which
\* has no child; on a square with a centred hole it finds two, the hole's
\* parent being the outer contour and the outer contour's first child the
\* hole.
C6_SquareTopology ==
    (op = "contours" /\ outcome = "ok") =>
        /\ IsFilledSquare(pre) =>
              /\ retCount = 1
              /\ Len(contours) = 1
              /\ hierarchy = <<(<<-1, -1, -1, -1>>)>>
        /\ IsHoledSquare(pre) =>
              /\ retCount = 2
              /\ Len(contours) = 2
              \* the outer border starts at the square's top left corner,
              \* the hole's border left of the hole's top left pixel
              /\ contours[1][1] = <<SetMin(FgCols(pre)) - 1,
                                    SetMin(FgRows(pre)) - 1>>
              /\ contours[2][1] =
                    <<SetMin({q[2] : q \in Inner(pre)}) - 2,
                      SetMin({q[1] : q \in Inner(pre)}) - 1>>
              /\ hierarchy = << <<-1, -1, 1, -1>>, <<-1, -1, -1, 0>> >>

\* C7 as stated: on any valid buffer whose pixels are all zero
\* nativeFindContours returns 0, the contour sequence being empty.
C7_AllBackgroundAnyBuffer ==
    (/\ op = "contours" /\ ValidMat(pre)
     /\ \A i \in 1..Len(pre.data) : \A c \in 1..pre.ch : pre.data[i][c] = 0)
        => (outcome = "ok" /\ retCount = 0 /\ contours = <<>>)

\* C8: with selector 2 the threshold Otsu's method computes for an image of
\* exactly two levels lo < hi satisfies lo <= t < hi: every lo pixel becomes
\* 0 and every hi pixel 255.
C8_OtsuSplitsTwoLevels ==
    (/\ op = "dither" /\ alg = 2 /\ ValidMat(pre)
     /\ Cardinality(Levels(gray)) = 2) =>
        LET g == gray
            lo == SetMin(Levels(g))
            hi == SetMax(Levels(g))
        IN  /\ outcome = "ok"
            /\ IsGrayOf(g, pre)
            /\ \A t \in getThreshVal_Otsu_8u(g) : lo <= t /\ t < hi
            /\ Len(mat.data) = Len(g.data)
            /\ \A i \in 1..Len(g.data) :
                  mat.data[i] = <<IF g.data[i][1] = lo THEN 0 ELSE 255>>

\* Otsu's threshold has been applied to an image of clusters 10 and 240 of
\* unequal size.
C8_Witness ==
    /\ op = "dither" /\ alg = 2 /\ outcome = "ok"
    /\ Levels(pre) = {10, 240} /\ Len(pre.data) = 3
    /\ Levels(mat) = {0, 255}

\* C9: a nativeFindContours that directly follows a nativeFindContours on
\* the same buffer, the caller not having touched the buffer in between,
\* returns the same count, the same sequence of contours and the same
\* hierarchy as the first, whatever the first call left in the buffer.
C9_TraceRepeats ==
    (op = "contours" /\ outcome = "ok" /\ prevTrace # NoTrace) =>
        /\ retCount = prevTrace.count
        /\ contours = prevTrace.contours
        /\ hierarchy = prevTrace.hierarchy

\* The second of two successive calls has traced, with its hole, the image
\* the first call left relabelled.
C9_Witness ==
    /\ op = "contours" /\ outcome = "ok" /\ prevTrace # NoTrace
    /\ inPlace
    /\ \E v \in Levels(pre) : v > 128 /\ v < 255
    /\ retCount >= 2
    /\ \E i \in 1..Len(hierarchy) : hierarchy[i][4] # -1

\* C10 as stated: on every valid buffer, of 1 or of 3 channels,
\* nativeProcessImage returns "Image processed: <width>x<height>" and leaves
\* the buffer as it was.
C10_ProcessReportsEveryValidBuffer ==
    (op = "process" /\ ValidMat(pre)) =>
        /\ outcome = "ok"
        /\ retString = "Image processed: " \o to_string(pre.cols) \o "x"
                       \o to_string(pre.rows)
        /\ mat = pre

=============================================================================
